---- MODULE Spec2Model ----
(***************************************************************************)
(* Model of the data loading backend of the OpenOA dashboard               *)
(* (dashboard/backend/data_loader.py): one run of load_plant_data over a   *)
(* set of raw files, one action per statement group of the function        *)
(* (Spec); the page loads of one server process with _extract_data and     *)
(* the st.cache_resource decorator (SpecSession); the analysis pages and   *)
(* the st.cache_data wrappers of analysis_runner.py (SpecAnalysis).        *)
(*                                                                         *)
(* Units: time in minutes, temperature in tenths of a degree Celsius,      *)
(* angles in degrees, power in kW, energy as an exact fraction of a kWh.   *)
(* A data frame is a sequence of row records; the field ix of a row is its *)
(* pandas index label.  A cell is <<>> (NaN) or <<v>>.                     *)
(***************************************************************************)
EXTENDS Integers, Sequences, FiniteSets, TLC

VARIABLES raw, pc, error, error_ids, stages,
          scada_time, scada_dedup, scada_range, todo,
          va_flagged, ot_flagged, scada_stuck, scada_pitch, scada_df,
          meter_df, curtail_df, re_merra2, re_era5, asset_df, plant,
          dir, cache, completions, loads, runs, extracts, got,
          an_pc, an_call, an_res, data_cache, an_success, an_calls, shown

\* The frames of one call of load_plant_data and _clean_scada
frames == <<scada_time, scada_dedup, scada_range, todo, va_flagged,
            ot_flagged, scada_stuck, scada_pitch, scada_df, meter_df,
            curtail_df, re_merra2, re_era5, asset_df>>

\* The locals of one call: the exception raised, the stages run so far
\* (source, stage) and the frames
locals == <<error, error_ids, stages, frames>>

\* The data directory, the cache of st.cache_resource and the page loads
sess == <<dir, cache, completions, loads, runs, extracts, got>>

\* The analysis pages and the cache of st.cache_data
ana == <<an_pc, an_call, an_res, data_cache, an_success, an_calls, shown>>

vars == <<raw, pc, locals, plant, sess, ana>>

----------------------------------------------------------------------------
(* Bounds of the explored inputs *)

MaxRows == 3

MaxSegs == 2

MaxAngle == 400

MaxPower == 6

MaxMeter == 2

MaxRe == 3

MaxLoads == 3

MaxCalls == 2

----------------------------------------------------------------------------
(* Cells and small helpers *)

NaN == <<>>

Val(x) == <<x>>

Min(a, b) == IF a < b THEN a ELSE b

RECURSIVE Gcd(_, _)
Gcd(a, b) == IF b = 0 THEN a ELSE Gcd(b, a % b)

Abs(a) == IF a < 0 THEN -a ELSE a

\* An exact fraction in lowest terms with a positive denominator.
Frac(n, d) ==
    LET g == Gcd(Abs(n), Abs(d))
        s == IF d < 0 THEN -1 ELSE 1
    IN  [num |-> s * (n \div g), den |-> s * (d \div g)]

FracMulInt(q, k) == Frac(q.num * k, q.den)

FracDivInt(q, k) == Frac(q.num, q.den * k)

----------------------------------------------------------------------------
(* Time Normalizer: pd.to_datetime(...).dt.tz_localize(None)               *)
(* A raw timestamp is a civil time (minutes) written with a zone           *)
(* annotation: "naive" (none), "+00:00" or "+01:00".                       *)

TZs == {"naive", "+00:00", "+01:00"}

OffsetMinutes(tz) == IF tz = "+01:00" THEN 60 ELSE 0

\* pd.to_datetime: with utc=True the value is converted to UTC (a naive
\* string is read as UTC); without it the written offset is kept.
to_datetime(civil, tz, utc) ==
    IF utc THEN [wall |-> civil - OffsetMinutes(tz), offset |-> 0]
           ELSE [wall |-> civil, offset |-> OffsetMinutes(tz)]

\* .dt.tz_localize(None): drops the zone and keeps the wall-clock time.
tz_localize_none(dt) == dt.wall

\* The instant a raw timestamp denotes, as naive UTC.
UtcInstant(civil, tz) == civil - OffsetMinutes(tz)

\* The rows of a file whose timestamp text is no timestamp.
Malformed(file) == IF "malformed" \in DOMAIN file THEN file.malformed ELSE {}

\* Variant of to_datetime_raises with errors="coerce": nothing raises.
to_datetime_coerce(file) == FALSE

\* pd.to_datetime (lines 43, 82, 87, 92, 99; errors="raise" by default)
\* raises on a column with a value it cannot parse.
to_datetime_raises(file) == Malformed(file) # {}

----------------------------------------------------------------------------
(* _clean_scada *)

TempLo == -150

TempHi == 450

VaneWindow == 3

TempWindow == 20

sensor_cols == {"Ba_avg", "P_avg", "Ws_avg", "Va_avg", "Ot_avg", "Ya_avg", "Wa_avg"}

\* pd.read_csv + line 43: rows get the index labels 0..n-1 and a naive
\* Date_time.
ScadaReadTime(file) ==
    [i \in 1..Len(file.rows) |->
        [ix |-> i - 1,
         Wind_turbine_name |-> file.rows[i].Wind_turbine_name,
         Date_time |-> tz_localize_none(to_datetime(file.rows[i].Date_time, file.tz, TRUE)),
         Ot_avg |-> file.rows[i].Ot_avg,
         Va_avg |-> file.rows[i].Va_avg,
         Ba_avg |-> file.rows[i].Ba_avg,
         P_avg |-> file.rows[i].P_avg,
         Ws_avg |-> file.rows[i].Ws_avg,
         Ya_avg |-> file.rows[i].Ya_avg,
         Wa_avg |-> file.rows[i].Wa_avg]]

ScadaKey(r) == <<r.Date_time, r.Wind_turbine_name>>

\* The sub-sequence of df at the positions satisfying Keep, in order.
RECURSIVE FilterPos(_, _, _)
FilterPos(df, keep, i) ==
    IF i > Len(df) THEN <<>>
    ELSE IF i \in keep THEN <<df[i]>> \o FilterPos(df, keep, i + 1)
         ELSE FilterPos(df, keep, i + 1)

\* Variant of drop_duplicates that keeps the last record of a key.
drop_duplicates_last(df) ==
    FilterPos(df, {i \in 1..Len(df) :
                     \A j \in (i + 1)..Len(df) : ScadaKey(df[j]) # ScadaKey(df[i])}, 1)

\* DataFrame.drop_duplicates(subset=[Date_time, Wind_turbine_name], keep="first")
drop_duplicates(df) ==
    FilterPos(df, {i \in 1..Len(df) :
                     \A j \in 1..(i - 1) : ScadaKey(df[j]) # ScadaKey(df[i])}, 1)

\* Line 47: boolean-mask row selection; a comparison with NaN is False.
RangeFilter(df) ==
    FilterPos(df, {i \in 1..Len(df) :
                     /\ df[i].Ot_avg # NaN
                     /\ df[i].Ot_avg[1] >= TempLo
                     /\ df[i].Ot_avg[1] <= TempHi}, 1)

\* Series.unique(): distinct values in order of first appearance.
RECURSIVE Unique(_, _)
Unique(df, i) ==
    IF i > Len(df) THEN <<>>
    ELSE IF \E j \in 1..(i - 1) : df[j].Wind_turbine_name = df[i].Wind_turbine_name
         THEN Unique(df, i + 1)
         ELSE <<df[i].Wind_turbine_name>> \o Unique(df, i + 1)

\* scada_df.loc[ix_turbine]
TurbineRows(df, t) ==
    FilterPos(df, {i \in 1..Len(df) : df[i].Wind_turbine_name = t}, 1)

\* openoa.utils.filters.unresponsive_flag(data, threshold, col): the index
\* labels of the rows whose value is constant over at least `threshold`
\* consecutive samples ending at some row of the same run (NaN never equals
\* its predecessor).
unresponsive_flag(data, threshold, col) ==
    LET n == Len(data)
        Same(i) == /\ i > 1
                   /\ data[i][col] # NaN
                   /\ data[i][col] = data[i - 1][col]
        EndsRun(i) == /\ i >= threshold
                      /\ \A k \in 0..(threshold - 2) : Same(i - k)
        Flag(i) == \E j \in i..Min(n, i + threshold - 1) : EndsRun(j)
    IN  {data[i].ix : i \in {k \in 1..n : Flag(k)}}

\* scada_df.loc[labels, cols] = np.nan
SetNaN(df, labels, cols) ==
    [i \in 1..Len(df) |->
        IF df[i].ix \in labels
        THEN [c \in DOMAIN df[i] |-> IF c \in cols THEN NaN ELSE df[i][c]]
        ELSE df[i]]

\* Variant of VaneFlag that runs the detector over the rows of all turbines.
VaneFlagWholeFrame(df, t) == unresponsive_flag(df, VaneWindow, "Va_avg")

\* Variant of VaneFlag with the window one sample short.
VaneFlagShort(df, t) ==
    unresponsive_flag(TurbineRows(df, t), VaneWindow - 1, "Va_avg")

\* Line 54: the short-window detector over the turbine's vane angle.
VaneFlag(df, t) == unresponsive_flag(TurbineRows(df, t), VaneWindow, "Va_avg")

\* Line 56: the long-window detector over the turbine's temperature.
TempFlag(df, t) == unresponsive_flag(TurbineRows(df, t), TempWindow, "Ot_avg")

\* Variant of NullVaneGroup that spares temperature and nacelle angle.
NullVaneGroupFive(df, labels) ==
    SetNaN(df, labels, {"Ba_avg", "P_avg", "Ws_avg", "Wa_avg", "Va_avg"})

\* Line 55
NullVaneGroup(df, labels) == SetNaN(df, labels, sensor_cols)

\* Line 57
NullTemp(df, labels) == SetNaN(df, labels, {"Ot_avg"})

\* Variant of PitchNorm that also shifts 180 itself.
PitchNormGe(c) ==
    IF c = NaN THEN NaN
    ELSE LET m == c[1] % 360
         IN  IF m >= 180 THEN Val(m - 360) ELSE Val(m)

\* Lines 60-62 on one cell
PitchNorm(c) ==
    IF c = NaN THEN NaN
    ELSE LET m == c[1] % 360
         IN  IF m > 180 THEN Val(m - 360) ELSE Val(m)

PitchStage(df) ==
    [i \in 1..Len(df) |-> [df[i] EXCEPT !.Ba_avg = PitchNorm(df[i].Ba_avg)]]

\* openoa.utils.unit_conversion.convert_power_to_energy(power, "10min"):
\* power times the sampling period in hours.
convert_power_to_energy(power, sample_rate_min) ==
    FracDivInt(FracMulInt(power, sample_rate_min), 60)

scada_freq == 10

\* Variant of EnergyKwh that leaves the result in Wh.
EnergyKwhNoScale(c) ==
    IF c = NaN THEN NaN
    ELSE Val(convert_power_to_energy(FracMulInt(Frac(c[1], 1), 1000), scada_freq))

\* Line 65 on one cell: kW -> W, integrate, Wh -> kWh.
EnergyKwh(c) ==
    IF c = NaN THEN NaN
    ELSE Val(FracDivInt(convert_power_to_energy(FracMulInt(Frac(c[1], 1), 1000),
                                                scada_freq), 1000))

EnergyStage(df) ==
    [i \in 1..Len(df) |->
        [c \in (DOMAIN df[i]) \cup {"energy_kwh"} |->
            IF c = "energy_kwh" THEN EnergyKwh(df[i].P_avg) ELSE df[i][c]]]

----------------------------------------------------------------------------
(* load_plant_data: meter, curtailment, reanalysis, asset table, PlantData *)

\* Lines 80-83: the meter frame keeps time and energy.
MeterStage(file) ==
    [i \in 1..Len(file.rows) |->
        [ix |-> i - 1,
         time |-> tz_localize_none(to_datetime(file.rows[i].time_utc, file.tz, FALSE)),
         net_energy_kwh |-> file.rows[i].net_energy_kwh]]

\* Lines 86-88: the curtailment frame keeps every column but time_utc.
CurtailStage(file) ==
    [i \in 1..Len(file.rows) |->
        [ix |-> i - 1,
         time |-> tz_localize_none(to_datetime(file.rows[i].time_utc, file.tz, FALSE)),
         net_energy_kwh |-> file.rows[i].net_energy_kwh,
         availability_kwh |-> file.rows[i].availability_kwh,
         curtailment_kwh |-> file.rows[i].curtailment_kwh]]

\* openoa.utils.met_data_processing.compute_wind_direction(u, v) on one
\* pair of cells: the compass bearing in [0, 360) of the two-argument
\* arctangent of the components (components in {-1, 0, 1}).
compute_wind_direction(u, v) ==
    IF u = NaN \/ v = NaN THEN NaN
    ELSE LET a == CASE u[1] = 0 /\ v[1] >= 0 -> 0
                    [] u[1] > 0 /\ v[1] > 0  -> 45
                    [] u[1] > 0 /\ v[1] = 0  -> 90
                    [] u[1] > 0 /\ v[1] < 0  -> 135
                    [] u[1] = 0 /\ v[1] < 0  -> 180
                    [] u[1] < 0 /\ v[1] < 0  -> -135
                    [] u[1] < 0 /\ v[1] = 0  -> -90
                    [] u[1] < 0 /\ v[1] > 0  -> -45
             wd == 180 + a
         IN  IF wd = 360 THEN Val(0) ELSE Val(wd)

\* Lines 91-94: MERRA2 keeps the rows of the file as they are.
Merra2Stage(file) ==
    [i \in 1..Len(file.rows) |->
        [ix |-> i - 1,
         datetime |-> tz_localize_none(to_datetime(file.rows[i].datetime, file.tz, TRUE)),
         u |-> file.rows[i].u,
         v |-> file.rows[i].v,
         winddirection_deg |-> compute_wind_direction(file.rows[i].u, file.rows[i].v)]]

re_freq == 60

\* Line 99: the naive timestamps of the ERA5 file, in file order.
Era5Times(file) ==
    [i \in 1..Len(file.rows) |->
        tz_localize_none(to_datetime(file.rows[i].datetime, file.tz, TRUE))]

SeqMin(s) == CHOOSE x \in {s[i] : i \in 1..Len(s)} : \A j \in 1..Len(s) : x <= s[j]

SeqMax(s) == CHOOSE x \in {s[i] : i \in 1..Len(s)} : \A j \in 1..Len(s) : x >= s[j]

\* Line 100: reindexing on an index with duplicate labels raises.
Era5Raises(file) ==
    LET ts == Era5Times(file)
    IN  \E i, j \in 1..Len(ts) : i # j /\ ts[i] = ts[j]

\* Lines 97-101: asfreq("1h") reindexes on date_range(min, max, "1h"); a
\* grid time without a row gets NaN features, a row off the grid is
\* dropped.
Era5Regularize(file) ==
    LET ts == Era5Times(file)
        lo == SeqMin(ts)
        hi == SeqMax(ts)
        n  == ((hi - lo) \div re_freq) + 1
        At(g) == {i \in 1..Len(ts) : ts[i] = g}
        U(g) == IF At(g) = {} THEN NaN ELSE file.rows[CHOOSE i \in At(g) : TRUE].u
        V(g) == IF At(g) = {} THEN NaN ELSE file.rows[CHOOSE i \in At(g) : TRUE].v
    IN  [k \in 1..n |->
            LET g == lo + (k - 1) * re_freq
            IN  [ix |-> g, datetime |-> g, u |-> U(g), v |-> V(g)]]

\* Lines 102-105: the wind direction is derived from the gridded columns.
Era5Derive(df) ==
    [k \in 1..Len(df) |->
        [ix |-> df[k].ix,
         datetime |-> df[k].datetime,
         u |-> df[k].u,
         v |-> df[k].v,
         winddirection_deg |-> compute_wind_direction(df[k].u, df[k].v)]]

\* Lines 108-109
AssetStage(ids) == [id \in ids |-> [asset_id |-> id, type |-> "turbine"]]

\* PlantData validation: every turbine of the SCADA stream must be an entry
\* of the asset table.
Unreconciled(scada, asset) ==
    {scada[i].Wind_turbine_name : i \in 1..Len(scada)} \ DOMAIN asset

----------------------------------------------------------------------------
(* The data directory, the caches and the pages *)

\* The files load_plant_data reads from the extracted directory.
Files == {"scada", "plant_data", "merra2", "era5", "asset"}

\* DATA_DIR / "la_haute_borne" with every member of the archive
FullDir == [exists |-> TRUE, files |-> Files]

\* DATA_DIR / "la_haute_borne" does not exist
NoDir == [exists |-> FALSE, files |-> {}]

\* Variant of NeedsExtract that extracts on every call.
NeedsExtractAlways(d) == TRUE

\* Line 33: not path.exists()
NeedsExtract(d) == ~d.exists

Readable(d, f) == d.exists /\ f \in d.files

\* The places of the run that open a file, and the file each opens.
ReadPcs == {"scada_read", "meter", "merra2", "era5", "asset"}

FileAt(p) ==
    CASE p = "scada_read" -> "scada"
      [] p = "meter" -> "plant_data"
      [] p = "merra2" -> "merra2"
      [] p = "era5" -> "era5"
      [] p = "asset" -> "asset"

\* Variant of Cached that never finds the stored object.
CachedNever(c) == FALSE

\* st.cache_resource holds an object for load_plant_data (no arguments, so
\* one entry).
Cached(c) == c # <<>>

\* What the last call of load_plant_data handed to its page.
NoResult == [kind |-> "none", id |-> 0, err |-> "none", ids |-> {}]

\* The functions of analysis_runner.py, one per analysis page.
Wrappers ==
    {"run_aep_analysis", "run_turbine_gross_energy", "run_electrical_losses",
     "run_eya_gap_analysis", "run_wake_losses", "run_yaw_misalignment"}

\* The wrappers decorated with st.cache_data
CachedWrappers == Wrappers \ {"run_eya_gap_analysis"}

\* The keyword arguments of a call, as one value.
ParamSets == {"defaults", "changed"}

\* PlantData instances a wrapper can be called with; 1 is the shared one.
Datasets == {1, 2}

\* Variant of CacheKey that hashes the dataset argument as well.
CacheKeyWithDataset(w, d, p) == <<w, d, p>>

\* The key of st.cache_data: the function and its arguments, those whose
\* name starts with an underscore (_plant_data) left out.
CacheKey(w, d, p) == <<w, p>>

\* What the body of a wrapper computes from its dataset and parameters.
Analysis(w, d, p) == [w |-> w, d |-> d, p |-> p]

NoCall == [caller |-> "none", w |-> "none", d |-> 0, p |-> "none"]

NoRes == [w |-> "none", d |-> 0, p |-> "none"]

----------------------------------------------------------------------------
(* Raw inputs *)

OtVals == {-151, -150, 449, 450, 500}

OtCells == {Val(x) : x \in OtVals}

ScadaRow(t, time, ot, va, ba, p) ==
    [Wind_turbine_name |-> t, Date_time |-> time, Ot_avg |-> ot,
     Va_avg |-> Val(va), Ba_avg |-> Val(ba), P_avg |-> Val(p),
     Ws_avg |-> Val(7), Ya_avg |-> Val(90), Wa_avg |-> Val(100)]

DefaultScada ==
    [tz |-> "naive",
     rows |-> <<ScadaRow(1, 0, Val(200), 0, 0, 100),
                ScadaRow(2, 0, Val(200), 0, 0, 100)>>]

\* One turbine, regular timestamps, temperatures around the valid range.
RangeFiles ==
    UNION {{[tz |-> "naive",
             rows |-> [i \in 1..n |-> ScadaRow(1, 10 * (i - 1), f[i], i % 2, 0, 100)]] :
               f \in [1..n -> OtCells]} : n \in 1..MaxRows}

\* Two turbines, two timestamps, any order and repetition; the temperature
\* tells the rows of one key apart.
DedupFiles ==
    UNION {{[tz |-> "naive",
             rows |-> [i \in 1..n |->
                          ScadaRow(f[i][1], f[i][2], Val(200 + i), i % 2, 0, 100)]] :
               f \in [1..n -> {1, 2} \X {0, 10}]} : n \in 1..MaxRows}

\* A file made of segments: consecutive rows of one turbine with one
\* temperature and a vane that is stuck (5), free (alternating 0, 1) or
\* free after two equal readings (5, 5, then alternating).
ShortSegs ==
    [t : {1}, vane : {"stuck", "free"}, ot : {200}, len : {VaneWindow - 1, VaneWindow}]
      \cup [t : {2}, vane : {"stuck"}, ot : {200}, len : {VaneWindow - 1, VaneWindow}]

LongSegs ==
    [t : {1}, vane : {"free"}, ot : {210}, len : {TempWindow - 1, TempWindow}]
      \cup [t : {1}, vane : {"free"}, ot : {200}, len : {TempWindow - 1}]
      \cup [t : {1}, vane : {"pair"}, ot : {210}, len : {TempWindow}]
      \cup [t : {1}, vane : {"stuck"}, ot : {200}, len : {TempWindow}]

VaneReading(kind, j, pos) ==
    IF kind = "stuck" \/ (kind = "pair" /\ j <= 2) THEN 5 ELSE pos % 2

RECURSIVE Expand(_, _, _)
Expand(segs, k, base) ==
    IF k > Len(segs) THEN <<>>
    ELSE [j \in 1..segs[k].len |->
             ScadaRow(segs[k].t, 10 * (base + j - 1), Val(segs[k].ot),
                      VaneReading(segs[k].vane, j, base + j), 0, 100)]
         \o Expand(segs, k + 1, base + segs[k].len)

ShortSeqs == UNION {[1..n -> ShortSegs] : n \in 0..MaxSegs}

\* Up to MaxSegs short segments, alone or after or before one long segment.
RunFiles ==
    {[tz |-> "naive", rows |-> Expand(f, 1, 0)] : f \in ShortSeqs \ {<<>>}}
    \cup {[tz |-> "naive", rows |-> Expand(<<l>> \o f, 1, 0)] :
             l \in LongSegs, f \in ShortSeqs}
    \cup {[tz |-> "naive", rows |-> Expand(f \o <<l>>, 1, 0)] :
             l \in LongSegs, f \in ShortSeqs}

\* One row with any pitch angle.
AngleFiles ==
    {[tz |-> "naive", rows |-> <<ScadaRow(1, 0, Val(200), 0, a, 100)>>] :
        a \in (-MaxAngle)..MaxAngle}

\* Two rows with any two powers.
PowerFiles ==
    {[tz |-> "naive",
      rows |-> <<ScadaRow(1, 0, Val(200), 0, 0, p[1]),
                 ScadaRow(2, 0, Val(200), 0, 0, p[2])>>] :
        p \in ((-MaxPower)..MaxPower) \X ((-MaxPower)..MaxPower)}

MeterRow(time) ==
    [time_utc |-> time, net_energy_kwh |-> Val(50),
     availability_kwh |-> Val(1), curtailment_kwh |-> Val(2)]

DefaultMeter == [tz |-> "naive", rows |-> <<MeterRow(0), MeterRow(10)>>]

MeterFiles ==
    UNION {{[tz |-> z, rows |-> [i \in 1..n |-> MeterRow(f[i])]] :
               f \in [1..n -> {0, 10}], z \in TZs} : n \in 1..MaxMeter}

\* The wind components a reanalysis file holds for an hour.
ReRow(time) ==
    [datetime |-> time,
     u |-> Val(((time \div 60) % 3) - 1),
     v |-> Val((((time \div 60) \div 3) % 3) - 1)]

DefaultRe == [tz |-> "naive", rows |-> <<ReRow(0), ReRow(60)>>]

ReHours == {0, 60, 120, 180, 240}

ReFiles ==
    UNION {{[tz |-> "naive", rows |-> [i \in 1..n |-> ReRow(f[i])]] :
               f \in [1..n -> ReHours]} : n \in 1..MaxRe}

Scenario(s, m, r2, r5, a) ==
    [scada |-> s, meter |-> m, merra2 |-> r2, era5 |-> r5, asset |-> a]

\* An ERA5 file with one hour twice.
DupRe == [tz |-> "naive", rows |-> <<ReRow(0), ReRow(0)>>]

\* The file with the timestamps of the rows S replaced by unparseable text.
Garbled(file, S) == [tz |-> file.tz, rows |-> file.rows, malformed |-> S]

MalformedSets == {{}, {1}, {1, 2}}

DefaultFiles == Scenario(DefaultScada, DefaultMeter, DefaultRe, DefaultRe, {1, 2})

\* Unparseable timestamps in any of the sources, with or without a
\* duplicate ERA5 hour and an unlisted turbine.
MalformedScenarios ==
    {Scenario(Garbled(DefaultScada, a), Garbled(DefaultMeter, b),
              Garbled(DefaultRe, c), Garbled(r, d), ids) :
        a \in MalformedSets, b \in MalformedSets, c \in MalformedSets,
        d \in MalformedSets, r \in {DefaultRe, DupRe}, ids \in {{1, 2}, {1}}}

\* The raw data directories explored: each family varies one source.
Scenarios ==
    {Scenario(s, DefaultMeter, DefaultRe, DefaultRe, {1, 2}) :
        s \in RangeFiles \cup DedupFiles \cup RunFiles \cup AngleFiles \cup PowerFiles}
    \cup {Scenario([DefaultScada EXCEPT !.tz = z], DefaultMeter,
                   [DefaultRe EXCEPT !.tz = z], [DefaultRe EXCEPT !.tz = z], {1, 2}) :
             z \in TZs}
    \cup {Scenario(DefaultScada, m, DefaultRe, DefaultRe, {1, 2}) : m \in MeterFiles}
    \cup {Scenario(DefaultScada, DefaultMeter, r, DefaultRe, {1, 2}) : r \in ReFiles}
    \cup {Scenario(DefaultScada, DefaultMeter, DefaultRe, r, {1, 2}) : r \in ReFiles}
    \cup {Scenario(DefaultScada, DefaultMeter, DefaultRe, DefaultRe, a) :
             a \in SUBSET {1, 2}}
    \cup MalformedScenarios

----------------------------------------------------------------------------
(* The run of load_plant_data *)

\* The state of the first call of load_plant_data once _extract_data has
\* returned (line 74): the directory is complete, nothing is cached.
Init ==
    /\ raw \in Scenarios
    /\ pc = "scada_read"
    /\ error = "none"
    /\ error_ids = {}
    /\ stages = <<>>
    /\ scada_time = <<>>
    /\ scada_dedup = <<>>
    /\ scada_range = <<>>
    /\ todo = <<>>
    /\ va_flagged = {}
    /\ ot_flagged = {}
    /\ scada_stuck = <<>>
    /\ scada_pitch = <<>>
    /\ scada_df = <<>>
    /\ meter_df = <<>>
    /\ curtail_df = <<>>
    /\ re_merra2 = <<>>
    /\ re_era5 = <<>>
    /\ asset_df = <<>>
    /\ plant = <<>>
    /\ dir = FullDir
    /\ cache = <<>>
    /\ completions = 0
    /\ loads = 1
    /\ runs = 1
    /\ extracts = 1
    /\ got = NoResult
    /\ an_pc = "idle"
    /\ an_call = NoCall
    /\ an_res = NoRes
    /\ data_cache = {}
    /\ an_success = [k \in Wrappers \X ParamSets |-> 0]
    /\ an_calls = 0
    /\ shown = "none"

\* _clean_scada, lines 41-43
ScadaTime ==
    /\ pc = "scada_read"
    /\ Readable(dir, "scada")
    /\ ~to_datetime_raises(raw.scada)
    /\ scada_time' = ScadaReadTime(raw.scada)
    /\ stages' = Append(stages, <<"scada", "time">>)
    /\ pc' = "scada_dedup"
    /\ UNCHANGED <<raw, error, error_ids, scada_dedup, scada_range, todo,
                   va_flagged, ot_flagged, scada_stuck, scada_pitch, scada_df,
                   meter_df, curtail_df, re_merra2, re_era5, asset_df, plant,
                   sess, ana>>

\* _clean_scada, line 43 raising on a Date_time that is no timestamp
ScadaTimeFails ==
    /\ pc = "scada_read"
    /\ Readable(dir, "scada")
    /\ to_datetime_raises(raw.scada)
    /\ stages' = Append(stages, <<"scada", "time">>)
    /\ error' = "ValueError"
    /\ pc' = "failed"
    /\ UNCHANGED <<raw, error_ids, scada_time, scada_dedup, scada_range, todo,
                   va_flagged, ot_flagged, scada_stuck, scada_pitch, scada_df,
                   meter_df, curtail_df, re_merra2, re_era5, asset_df, plant,
                   sess, ana>>

\* _clean_scada, line 44
ScadaDedup ==
    /\ pc = "scada_dedup"
    /\ scada_dedup' = drop_duplicates(scada_time)
    /\ stages' = Append(stages, <<"scada", "dedup">>)
    /\ pc' = "scada_range"
    /\ UNCHANGED <<raw, error, error_ids, scada_time, scada_range, todo,
                   va_flagged, ot_flagged, scada_stuck, scada_pitch, scada_df,
                   meter_df, curtail_df, re_merra2, re_era5, asset_df, plant,
                   sess, ana>>

\* _clean_scada, lines 47-51: the range filter, then the list of turbines
\* the detector loop will visit.
ScadaRange ==
    /\ pc = "scada_range"
    /\ scada_range' = RangeFilter(scada_dedup)
    /\ scada_stuck' = RangeFilter(scada_dedup)
    /\ todo' = Unique(RangeFilter(scada_dedup), 1)
    /\ stages' = Append(stages, <<"scada", "range">>)
    /\ pc' = "scada_stuck"
    /\ UNCHANGED <<raw, error, error_ids, scada_time, scada_dedup, va_flagged,
                   ot_flagged, scada_pitch, scada_df, meter_df,
                   curtail_df, re_merra2, re_era5, asset_df, plant,
                   sess, ana>>

\* _clean_scada, lines 52-57: one iteration of the loop over the turbines.
ScadaStuckTurbine ==
    /\ pc = "scada_stuck"
    /\ todo # <<>>
    /\ LET t   == Head(todo)
           fv  == VaneFlag(scada_stuck, t)
           df1 == NullVaneGroup(scada_stuck, fv)
           fo  == TempFlag(df1, t)
       IN  /\ va_flagged' = va_flagged \cup fv
           /\ ot_flagged' = ot_flagged \cup fo
           /\ scada_stuck' = NullTemp(df1, fo)
    /\ todo' = Tail(todo)
    /\ stages' = Append(stages, <<"scada", "stuck">>)
    /\ UNCHANGED <<raw, pc, error, error_ids, scada_time, scada_dedup,
                   scada_range, scada_pitch, scada_df, meter_df,
                   curtail_df, re_merra2, re_era5, asset_df, plant,
                   sess, ana>>

\* _clean_scada, lines 60-62
ScadaPitch ==
    /\ pc = "scada_stuck"
    /\ todo = <<>>
    /\ scada_pitch' = PitchStage(scada_stuck)
    /\ stages' = Append(stages, <<"scada", "angle">>)
    /\ pc' = "scada_energy"
    /\ UNCHANGED <<raw, error, error_ids, scada_time, scada_dedup, scada_range,
                   todo, va_flagged, ot_flagged, scada_stuck, scada_df, meter_df,
                   curtail_df, re_merra2, re_era5, asset_df, plant,
                   sess, ana>>

\* _clean_scada, lines 65-67
ScadaEnergy ==
    /\ pc = "scada_energy"
    /\ scada_df' = EnergyStage(scada_pitch)
    /\ stages' = Append(stages, <<"scada", "energy">>)
    /\ pc' = "meter"
    /\ UNCHANGED <<raw, error, error_ids, scada_time, scada_dedup, scada_range,
                   todo, va_flagged, ot_flagged, scada_stuck, scada_pitch,
                   meter_df, curtail_df, re_merra2, re_era5, asset_df, plant,
                   sess, ana>>

\* load_plant_data, lines 80-88
LoadMeterCurtail ==
    /\ pc = "meter"
    /\ Readable(dir, "plant_data")
    /\ ~to_datetime_raises(raw.meter)
    /\ meter_df' = MeterStage(raw.meter)
    /\ curtail_df' = CurtailStage(raw.meter)
    /\ stages' = stages \o <<(<<"meter", "time">>), (<<"curtail", "time">>)>>
    /\ pc' = "merra2"
    /\ UNCHANGED <<raw, error, error_ids, scada_time, scada_dedup, scada_range,
                   todo, va_flagged, ot_flagged, scada_stuck, scada_pitch,
                   scada_df, re_merra2, re_era5, asset_df, plant, sess, ana>>

\* load_plant_data, line 82 raising on a time_utc that is no timestamp
LoadMeterCurtailFails ==
    /\ pc = "meter"
    /\ Readable(dir, "plant_data")
    /\ to_datetime_raises(raw.meter)
    /\ stages' = Append(stages, <<"meter", "time">>)
    /\ error' = "ValueError"
    /\ pc' = "failed"
    /\ UNCHANGED <<raw, error_ids, scada_time, scada_dedup, scada_range, todo,
                   va_flagged, ot_flagged, scada_stuck, scada_pitch, scada_df,
                   meter_df, curtail_df, re_merra2, re_era5, asset_df, plant,
                   sess, ana>>

\* Variant of LoadMerra2 that derives the wind direction before it
\* normalizes the timestamps.
LoadMerra2DerivesFirst ==
    /\ pc = "merra2"
    /\ Readable(dir, "merra2")
    /\ ~to_datetime_raises(raw.merra2)
    /\ re_merra2' = Merra2Stage(raw.merra2)
    /\ stages' = stages \o <<(<<"merra2", "derive">>), (<<"merra2", "time">>)>>
    /\ pc' = "era5"
    /\ UNCHANGED <<raw, error, error_ids, scada_time, scada_dedup, scada_range,
                   todo, va_flagged, ot_flagged, scada_stuck, scada_pitch,
                   scada_df, meter_df, curtail_df, re_era5, asset_df, plant,
                   sess, ana>>

\* load_plant_data, lines 91-94
LoadMerra2 ==
    /\ pc = "merra2"
    /\ Readable(dir, "merra2")
    /\ ~to_datetime_raises(raw.merra2)
    /\ re_merra2' = Merra2Stage(raw.merra2)
    /\ stages' = stages \o <<(<<"merra2", "time">>), (<<"merra2", "derive">>)>>
    /\ pc' = "era5"
    /\ UNCHANGED <<raw, error, error_ids, scada_time, scada_dedup, scada_range,
                   todo, va_flagged, ot_flagged, scada_stuck, scada_pitch,
                   scada_df, meter_df, curtail_df, re_era5, asset_df, plant,
                   sess, ana>>

\* load_plant_data, line 92 raising on a datetime that is no timestamp
LoadMerra2Fails ==
    /\ pc = "merra2"
    /\ Readable(dir, "merra2")
    /\ to_datetime_raises(raw.merra2)
    /\ stages' = Append(stages, <<"merra2", "time">>)
    /\ error' = "ValueError"
    /\ pc' = "failed"
    /\ UNCHANGED <<raw, error_ids, scada_time, scada_dedup, scada_range, todo,
                   va_flagged, ot_flagged, scada_stuck, scada_pitch, scada_df,
                   meter_df, curtail_df, re_merra2, re_era5, asset_df, plant,
                   sess, ana>>

\* load_plant_data, lines 97-101: the timestamps, then the hourly grid
LoadEra5 ==
    /\ pc = "era5"
    /\ Readable(dir, "era5")
    /\ ~to_datetime_raises(raw.era5)
    /\ ~Era5Raises(raw.era5)
    /\ re_era5' = Era5Regularize(raw.era5)
    /\ stages' = stages \o <<(<<"era5", "time">>), (<<"era5", "align">>)>>
    /\ pc' = "era5_wd"
    /\ UNCHANGED <<raw, error, error_ids, scada_time, scada_dedup, scada_range,
                   todo, va_flagged, ot_flagged, scada_stuck, scada_pitch,
                   scada_df, meter_df, curtail_df, re_merra2, asset_df, plant,
                   sess, ana>>

\* load_plant_data, line 99 raising on a datetime that is no timestamp
LoadEra5TimeFails ==
    /\ pc = "era5"
    /\ Readable(dir, "era5")
    /\ to_datetime_raises(raw.era5)
    /\ stages' = Append(stages, <<"era5", "time">>)
    /\ error' = "ValueError"
    /\ pc' = "failed"
    /\ UNCHANGED <<raw, error_ids, scada_time, scada_dedup, scada_range, todo,
                   va_flagged, ot_flagged, scada_stuck, scada_pitch, scada_df,
                   meter_df, curtail_df, re_merra2, re_era5, asset_df, plant,
                   sess, ana>>

\* load_plant_data, line 100 raising on duplicate timestamps
LoadEra5Fails ==
    /\ pc = "era5"
    /\ Readable(dir, "era5")
    /\ ~to_datetime_raises(raw.era5)
    /\ Era5Raises(raw.era5)
    /\ stages' = stages \o <<(<<"era5", "time">>), (<<"era5", "align">>)>>
    /\ error' = "ValueError"
    /\ pc' = "failed"
    /\ UNCHANGED <<raw, error_ids, scada_time, scada_dedup, scada_range, todo,
                   va_flagged, ot_flagged, scada_stuck, scada_pitch, scada_df,
                   meter_df, curtail_df, re_merra2, re_era5, asset_df, plant,
                   sess, ana>>

\* load_plant_data, lines 102-105: the wind direction of the gridded frame
Era5WindDirection ==
    /\ pc = "era5_wd"
    /\ re_era5' = Era5Derive(re_era5)
    /\ stages' = Append(stages, <<"era5", "derive">>)
    /\ pc' = "asset"
    /\ UNCHANGED <<raw, error, error_ids, scada_time, scada_dedup, scada_range,
                   todo, va_flagged, ot_flagged, scada_stuck, scada_pitch,
                   scada_df, meter_df, curtail_df, re_merra2, asset_df, plant,
                   sess, ana>>

\* load_plant_data, lines 108-109
LoadAsset ==
    /\ pc = "asset"
    /\ Readable(dir, "asset")
    /\ asset_df' = AssetStage(raw.asset)
    /\ stages' = Append(stages, <<"asset", "read">>)
    /\ pc' = "build"
    /\ UNCHANGED <<raw, error, error_ids, scada_time, scada_dedup, scada_range,
                   todo, va_flagged, ot_flagged, scada_stuck, scada_pitch,
                   scada_df, meter_df, curtail_df, re_merra2, re_era5, plant,
                   sess, ana>>

\* load_plant_data, lines 112-121: PlantData accepts the streams
BuildPlant ==
    /\ pc = "build"
    /\ Unreconciled(scada_df, asset_df) = {}
    /\ plant' = [scada |-> scada_df, meter |-> meter_df, curtail |-> curtail_df,
                 asset |-> asset_df, era5 |-> re_era5, merra2 |-> re_merra2]
    /\ stages' = Append(stages, <<"plant", "validate">>)
    /\ pc' = "done"
    /\ UNCHANGED <<raw, error, error_ids, scada_time, scada_dedup, scada_range,
                   todo, va_flagged, ot_flagged, scada_stuck, scada_pitch,
                   scada_df, meter_df, curtail_df, re_merra2, re_era5, asset_df,
                   sess, ana>>

\* load_plant_data, lines 112-120: PlantData rejects the streams
BuildPlantFails ==
    /\ pc = "build"
    /\ Unreconciled(scada_df, asset_df) # {}
    /\ stages' = Append(stages, <<"plant", "validate">>)
    /\ error' = "EntityReconciliationError"
    /\ error_ids' = Unreconciled(scada_df, asset_df)
    /\ pc' = "failed"
    /\ UNCHANGED <<raw, scada_time, scada_dedup, scada_range, todo,
                   va_flagged, ot_flagged, scada_stuck, scada_pitch, scada_df,
                   meter_df, curtail_df, re_merra2, re_era5, asset_df, plant,
                   sess, ana>>

Next ==
    \/ ScadaTime
    \/ ScadaTimeFails
    \/ ScadaDedup
    \/ ScadaRange
    \/ ScadaStuckTurbine
    \/ ScadaPitch
    \/ ScadaEnergy
    \/ LoadMeterCurtail
    \/ LoadMeterCurtailFails
    \/ LoadMerra2
    \/ LoadMerra2Fails
    \/ LoadEra5
    \/ LoadEra5TimeFails
    \/ LoadEra5Fails
    \/ Era5WindDirection
    \/ LoadAsset
    \/ BuildPlant
    \/ BuildPlantFails

Spec == Init /\ [][Next]_vars

----------------------------------------------------------------------------
(* The server process: page loads, _extract_data and st.cache_resource *)

\* The detector loop of _clean_scada (lines 52-57) over the turbines ts.
RECURSIVE StuckLoop(_, _)
StuckLoop(df, ts) ==
    IF ts = <<>> THEN df
    ELSE LET t   == Head(ts)
             df1 == NullVaneGroup(df, VaneFlag(df, t))
         IN  StuckLoop(NullTemp(df1, TempFlag(df1, t)), Tail(ts))

\* _clean_scada as a whole
CleanScada(file) ==
    LET r == RangeFilter(drop_duplicates(ScadaReadTime(file)))
    IN  EnergyStage(PitchStage(StuckLoop(r, Unique(r, 1))))

\* The dataset load_plant_data returns for files it accepts.
LoadedPlant(files) ==
    [scada |-> CleanScada(files.scada),
     meter |-> MeterStage(files.meter),
     curtail |-> CurtailStage(files.meter),
     asset |-> AssetStage(files.asset),
     era5 |-> Era5Derive(Era5Regularize(files.era5)),
     merra2 |-> Merra2Stage(files.merra2)]

\* Turbine 2 has one row, which the range filter (line 47) removes.
ColdScada ==
    [tz |-> "naive",
     rows |-> <<ScadaRow(1, 0, Val(200), 0, 0, 100),
                ScadaRow(2, 0, Val(TempLo - 1), 0, 0, 100)>>]

\* The data directories a server process is started on.
SessionScenarios ==
    {Scenario(DefaultScada, DefaultMeter, DefaultRe, DefaultRe, a) :
        a \in SUBSET {1, 2}}
    \cup {Scenario(DefaultScada, DefaultMeter, DefaultRe, DupRe, {1, 2}),
          Scenario(ColdScada, DefaultMeter, DefaultRe, DefaultRe, {1}),
          Scenario(Garbled(DefaultScada, {2}), DefaultMeter, DefaultRe, DefaultRe, {1, 2}),
          Scenario(DefaultScada, Garbled(DefaultMeter, {1}), DefaultRe, DefaultRe, {1, 2}),
          Scenario(DefaultScada, DefaultMeter, Garbled(DefaultRe, {1}), DefaultRe, {1, 2}),
          Scenario(DefaultScada, DefaultMeter, DefaultRe, Garbled(DefaultRe, {2}), {1, 2})}

\* A fresh server process: nothing extracted, nothing cached, no page run.
SessionInit ==
    /\ raw \in SessionScenarios
    /\ pc = "idle"
    /\ error = "none"
    /\ error_ids = {}
    /\ stages = <<>>
    /\ scada_time = <<>>
    /\ scada_dedup = <<>>
    /\ scada_range = <<>>
    /\ todo = <<>>
    /\ va_flagged = {}
    /\ ot_flagged = {}
    /\ scada_stuck = <<>>
    /\ scada_pitch = <<>>
    /\ scada_df = <<>>
    /\ meter_df = <<>>
    /\ curtail_df = <<>>
    /\ re_merra2 = <<>>
    /\ re_era5 = <<>>
    /\ asset_df = <<>>
    /\ plant = <<>>
    /\ dir = NoDir
    /\ cache = <<>>
    /\ completions = 0
    /\ loads = 0
    /\ runs = 0
    /\ extracts = 0
    /\ got = NoResult
    /\ an_pc = "idle"
    /\ an_call = NoCall
    /\ an_res = NoRes
    /\ data_cache = {}
    /\ an_success = [k \in Wrappers \X ParamSets |-> 0]
    /\ an_calls = 0
    /\ shown = "none"

\* The locals of load_plant_data and _clean_scada end with the call.
ResetLocals ==
    /\ error' = "none"
    /\ error_ids' = {}
    /\ stages' = <<>>
    /\ scada_time' = <<>>
    /\ scada_dedup' = <<>>
    /\ scada_range' = <<>>
    /\ todo' = <<>>
    /\ va_flagged' = {}
    /\ ot_flagged' = {}
    /\ scada_stuck' = <<>>
    /\ scada_pitch' = <<>>
    /\ scada_df' = <<>>
    /\ meter_df' = <<>>
    /\ curtail_df' = <<>>
    /\ re_merra2' = <<>>
    /\ re_era5' = <<>>
    /\ asset_df' = <<>>

\* A page calls load_plant_data() (line 17 of every page) and the
\* st.cache_resource decorator (line 70) returns the stored object.
PageLoadHit ==
    /\ pc = "idle"
    /\ loads < MaxLoads
    /\ Cached(cache)
    /\ loads' = loads + 1
    /\ got' = [kind |-> "plant", id |-> cache[1], err |-> "none", ids |-> {}]
    /\ UNCHANGED <<raw, pc, locals, plant, dir, cache, completions, runs,
                   extracts, ana>>

\* A page calls load_plant_data() and the decorator finds nothing stored:
\* the body of the function starts.
PageLoadMiss ==
    /\ pc = "idle"
    /\ loads < MaxLoads
    /\ ~Cached(cache)
    /\ loads' = loads + 1
    /\ runs' = runs + 1
    /\ pc' = "extract"
    /\ UNCHANGED <<raw, locals, plant, dir, cache, completions, extracts, got,
                   ana>>

\* _extract_data, lines 33-35: the archive is extracted.
ExtractData ==
    /\ pc = "extract"
    /\ NeedsExtract(dir)
    /\ dir' = FullDir
    /\ extracts' = extracts + 1
    /\ pc' = "scada_read"
    /\ UNCHANGED <<raw, locals, plant, cache, completions, loads, runs, got,
                   ana>>

\* _extract_data, lines 34-35: ZipFile() or extractall() raises, before the
\* directory is created or after some members have been written.
ExtractFails ==
    /\ pc = "extract"
    /\ NeedsExtract(dir)
    /\ \E d \in {NoDir} \cup {[exists |-> TRUE, files |-> S] :
                                S \in (SUBSET Files) \ {Files}} :
          /\ dir.exists => d.exists
          /\ dir.files \subseteq d.files
          /\ dir' = d
    /\ extracts' = extracts + 1
    /\ error' = "OSError"
    /\ pc' = "failed"
    /\ UNCHANGED <<raw, error_ids, stages, frames, plant, cache, completions,
                   loads, runs, got, ana>>

\* _extract_data, line 33: the directory exists, nothing is extracted.
ExtractSkip ==
    /\ pc = "extract"
    /\ ~NeedsExtract(dir)
    /\ pc' = "scada_read"
    /\ UNCHANGED <<raw, locals, plant, dir, cache, completions, loads, runs,
                   extracts, got, ana>>

\* pd.read_csv (lines 41, 80, 91, 97, 108) on a file the directory lacks.
ReadMissing ==
    /\ pc \in ReadPcs
    /\ ~Readable(dir, FileAt(pc))
    /\ error' = "FileNotFoundError"
    /\ pc' = "failed"
    /\ UNCHANGED <<raw, error_ids, stages, frames, plant, sess, ana>>

\* Variant of Raise that stores what the failed run has built.
RaiseStoringPartial ==
    /\ pc = "failed"
    /\ got' = [kind |-> "error", id |-> 0, err |-> error, ids |-> error_ids]
    /\ cache' = <<completions + 1>>
    /\ pc' = "idle"
    /\ ResetLocals
    /\ UNCHANGED <<raw, plant, dir, completions, loads, runs, extracts, ana>>

\* load_plant_data ends with an exception: the decorator stores nothing and
\* the exception reaches the page.
Raise ==
    /\ pc = "failed"
    /\ got' = [kind |-> "error", id |-> 0, err |-> error, ids |-> error_ids]
    /\ pc' = "idle"
    /\ ResetLocals
    /\ UNCHANGED <<raw, plant, dir, cache, completions, loads, runs, extracts,
                   ana>>

\* load_plant_data returns (line 121): the decorator stores the object and
\* hands it to the page.
Return ==
    /\ pc = "done"
    /\ cache' = <<completions + 1>>
    /\ completions' = completions + 1
    /\ got' = [kind |-> "plant", id |-> completions + 1, err |-> "none", ids |-> {}]
    /\ pc' = "idle"
    /\ ResetLocals
    /\ UNCHANGED <<raw, plant, dir, loads, runs, extracts, ana>>

SessionNext ==
    \/ Next
    \/ PageLoadHit
    \/ PageLoadMiss
    \/ ExtractData
    \/ ExtractFails
    \/ ExtractSkip
    \/ ReadMissing
    \/ Raise
    \/ Return

SpecSession == SessionInit /\ [][SessionNext]_vars

----------------------------------------------------------------------------
(* The analysis pages and the cached wrappers of analysis_runner.py *)

\* A server process after the first page load has cached the dataset.
AnalysisInit ==
    /\ raw = DefaultFiles
    /\ pc = "idle"
    /\ error = "none"
    /\ error_ids = {}
    /\ stages = <<>>
    /\ scada_time = <<>>
    /\ scada_dedup = <<>>
    /\ scada_range = <<>>
    /\ todo = <<>>
    /\ va_flagged = {}
    /\ ot_flagged = {}
    /\ scada_stuck = <<>>
    /\ scada_pitch = <<>>
    /\ scada_df = <<>>
    /\ meter_df = <<>>
    /\ curtail_df = <<>>
    /\ re_merra2 = <<>>
    /\ re_era5 = <<>>
    /\ asset_df = <<>>
    /\ plant = LoadedPlant(DefaultFiles)
    /\ dir = FullDir
    /\ cache = <<1>>
    /\ completions = 1
    /\ loads = 1
    /\ runs = 1
    /\ extracts = 1
    /\ got = [kind |-> "plant", id |-> 1, err |-> "none", ids |-> {}]
    /\ an_pc = "idle"
    /\ an_call = NoCall
    /\ an_res = NoRes
    /\ data_cache = {}
    /\ an_success = [k \in Wrappers \X ParamSets |-> 0]
    /\ an_calls = 0
    /\ shown = "none"

\* The entry of a wrapper's cache that answers the call c.
Hit(c) == {e \in data_cache : e.key = CacheKey(c.w, c.d, c.p)}

\* A page runs and the Run button is not pressed: the else branch (the EYA
\* page has none).
PageIdle(w) ==
    /\ an_pc = "idle"
    /\ an_calls < MaxCalls
    /\ Cached(cache)
    /\ an_calls' = an_calls + 1
    /\ an_call' = NoCall
    /\ an_res' = NoRes
    /\ shown' = IF w = "run_eya_gap_analysis" THEN "form" ELSE "info"
    /\ UNCHANGED <<raw, pc, locals, plant, sess, an_pc, data_cache, an_success>>

\* A page runs with the Run button pressed: it enters the try block and
\* calls its wrapper with the dataset load_plant_data returned.
PageRun(w, p) ==
    /\ an_pc = "idle"
    /\ an_calls < MaxCalls
    /\ Cached(cache)
    /\ an_calls' = an_calls + 1
    /\ an_call' = [caller |-> "page", w |-> w, d |-> cache[1], p |-> p]
    /\ an_res' = NoRes
    /\ an_pc' = "try"
    /\ UNCHANGED <<raw, pc, locals, plant, sess, data_cache, an_success, shown>>

\* Another caller of the module calls a wrapper with a dataset of its own.
DirectCall(w, d, p) ==
    /\ an_pc = "idle"
    /\ an_calls < MaxCalls
    /\ an_calls' = an_calls + 1
    /\ an_call' = [caller |-> "direct", w |-> w, d |-> d, p |-> p]
    /\ an_res' = NoRes
    /\ an_pc' = "try"
    /\ UNCHANGED <<raw, pc, locals, plant, sess, data_cache, an_success, shown>>

\* st.cache_data finds the key: the stored result is returned and the body
\* of the wrapper does not run.
WrapperHit ==
    /\ an_pc = "try"
    /\ an_call.w \in CachedWrappers
    /\ \E e \in Hit(an_call) : an_res' = e.res
    /\ an_pc' = "returned"
    /\ UNCHANGED <<raw, pc, locals, plant, sess, an_call, data_cache,
                   an_success, an_calls, shown>>

\* The body of the wrapper runs to its return; st.cache_data stores the
\* result of a decorated wrapper under the key of the call.
WrapperRuns ==
    /\ an_pc = "try"
    /\ an_call.w \in CachedWrappers => Hit(an_call) = {}
    /\ an_res' = Analysis(an_call.w, an_call.d, an_call.p)
    /\ data_cache' =
          IF an_call.w \in CachedWrappers
          THEN data_cache \cup
                 {[key |-> CacheKey(an_call.w, an_call.d, an_call.p),
                   res |-> Analysis(an_call.w, an_call.d, an_call.p)]}
          ELSE data_cache
    /\ an_success' = [an_success EXCEPT ![<<an_call.w, an_call.p>>] = @ + 1]
    /\ an_pc' = "returned"
    /\ UNCHANGED <<raw, pc, locals, plant, sess, an_call, an_calls, shown>>

\* The body of the wrapper raises: nothing is stored.
WrapperRaises ==
    /\ an_pc = "try"
    /\ an_call.w \in CachedWrappers => Hit(an_call) = {}
    /\ an_pc' = "raised"
    /\ UNCHANGED <<raw, pc, locals, plant, sess, an_call, an_res, data_cache,
                   an_success, an_calls, shown>>

\* The rest of the try block renders the result.
ShowResults ==
    /\ an_pc = "returned"
    /\ shown' = IF an_call.caller = "page" THEN "results" ELSE shown
    /\ an_pc' = "idle"
    /\ UNCHANGED <<raw, pc, locals, plant, sess, an_call, an_res, data_cache,
                   an_success, an_calls>>

\* The rest of the try block raises while it renders the result.
RenderRaises ==
    /\ an_pc = "returned"
    /\ an_call.caller = "page"
    /\ an_pc' = "raised"
    /\ UNCHANGED <<raw, pc, locals, plant, sess, an_call, an_res, data_cache,
                   an_success, an_calls, shown>>

\* Variant of ShowError without the except clause: the page run dies.
ShowErrorUncaught ==
    /\ an_pc = "raised"
    /\ an_call.caller = "page"
    /\ shown' = "traceback"
    /\ an_pc' = "idle"
    /\ UNCHANGED <<raw, pc, locals, plant, sess, an_call, an_res, data_cache,
                   an_success, an_calls>>

\* except Exception as e: st.error(...), the last statement of the page
ShowError ==
    /\ an_pc = "raised"
    /\ an_call.caller = "page"
    /\ shown' = "error"
    /\ an_pc' = "idle"
    /\ UNCHANGED <<raw, pc, locals, plant, sess, an_call, an_res, data_cache,
                   an_success, an_calls>>

\* The exception of a wrapper reaches a caller that is no page.
Propagate ==
    /\ an_pc = "raised"
    /\ an_call.caller = "direct"
    /\ an_pc' = "idle"
    /\ UNCHANGED <<raw, pc, locals, plant, sess, an_call, an_res, data_cache,
                   an_success, an_calls, shown>>

AnalysisNext ==
    \/ \E w \in Wrappers : PageIdle(w)
    \/ \E w \in Wrappers, p \in ParamSets : PageRun(w, p)
    \/ \E w \in Wrappers, d \in Datasets, p \in ParamSets : DirectCall(w, d, p)
    \/ WrapperHit
    \/ WrapperRuns
    \/ WrapperRaises
    \/ ShowResults
    \/ RenderRaises
    \/ ShowError
    \/ Propagate

SpecAnalysis == AnalysisInit /\ [][AnalysisNext]_vars

----------------------------------------------------------------------------
(* Stage predicates *)

AfterDedup == pc \notin {"scada_read", "scada_dedup"}

AfterRange == pc \notin {"scada_read", "scada_dedup", "scada_range"}

StuckJustDone == pc = "scada_stuck" /\ todo = <<>>

AfterStuck == AfterRange /\ todo = <<>>

AfterPitch == pc \notin {"scada_read", "scada_dedup", "scada_range", "scada_stuck"}

AfterEnergy == AfterPitch /\ pc # "scada_energy"

Handed == pc \in {"build", "done"}

OutOfRange(c) == c # NaN /\ (c[1] < TempLo \/ c[1] > TempHi)

----------------------------------------------------------------------------
(* C1: the range filter keeps every row: a row with an out-of-range         *)
(* temperature stays with only its temperature cell nulled, a row with an   *)
(* in-range temperature is unchanged, and the row count is unchanged.       *)

C1_RangeFilterNullsCell ==
    AfterRange =>
        /\ Len(scada_range) = Len(scada_dedup)
        /\ \A i \in 1..Len(scada_dedup) :
              IF OutOfRange(scada_dedup[i].Ot_avg)
              THEN scada_range[i] = [scada_dedup[i] EXCEPT !.Ot_avg = NaN]
              ELSE scada_range[i] = scada_dedup[i]

----------------------------------------------------------------------------
(* C2: scope of the stuck-sensor invalidation.                              *)

ClaimedVaneGroup == {"Ba_avg", "P_avg", "Ws_avg", "Wa_avg", "Va_avg"}

\* The row r0 with the cells of cols nulled and every other cell kept.
Nulled(r0, cols) == [c \in DOMAIN r0 |-> IF c \in cols THEN NaN ELSE r0[c]]

\* C2 as claimed: a row flagged by the short-window detector has exactly
\* pitch, power, wind speed, wind direction and vane angle nulled (its
\* temperature is kept), a row flagged by the long-window detector only has
\* its temperature nulled.
C2_VaneRunNullsFiveColumns ==
    AfterStuck =>
        /\ Len(scada_stuck) = Len(scada_range)
        /\ \A i \in 1..Len(scada_range) :
              LET r0 == scada_range[i]
              IN  scada_stuck[i] =
                    Nulled(r0, (IF r0.ix \in va_flagged THEN ClaimedVaneGroup ELSE {})
                                 \cup (IF r0.ix \in ot_flagged THEN {"Ot_avg"} ELSE {}))

\* C2 as amended: a row flagged by the short-window detector has exactly the
\* seven sensor columns nulled (pitch, power, wind speed, vane angle,
\* temperature, nacelle angle, wind direction) and keeps its turbine name,
\* timestamp and index label; a row flagged only by the long-window detector
\* has only its temperature nulled; any other row is unchanged.
C2_VaneRunNullsSensorCols ==
    AfterStuck =>
        /\ Len(scada_stuck) = Len(scada_range)
        /\ \A i \in 1..Len(scada_range) :
              LET r0 == scada_range[i]
                  r1 == scada_stuck[i]
              IN  /\ r1.ix = r0.ix
                  /\ r1.Wind_turbine_name = r0.Wind_turbine_name
                  /\ r1.Date_time = r0.Date_time
                  /\ r0.ix \in va_flagged =>
                        \A c \in {"Ba_avg", "P_avg", "Ws_avg", "Va_avg",
                                  "Ot_avg", "Ya_avg", "Wa_avg"} : r1[c] = NaN
                  /\ r0.ix \in ot_flagged \ va_flagged =>
                        /\ r1.Ot_avg = NaN
                        /\ \A c \in {"Ba_avg", "P_avg", "Ws_avg", "Va_avg",
                                     "Ya_avg", "Wa_avg"} : r1[c] = r0[c]
                  /\ r0.ix \notin (va_flagged \cup ot_flagged) => r1 = r0

\* Both detectors have fired in one run, on different rows holding values.
C2_Witness ==
    /\ AfterStuck
    /\ \E i \in 1..Len(scada_range) :
          /\ scada_range[i].ix \in va_flagged
          /\ scada_range[i].Ya_avg # NaN
          /\ scada_stuck[i].Ya_avg = NaN
    /\ \E i \in 1..Len(scada_range) :
          /\ scada_range[i].ix \in ot_flagged \ va_flagged
          /\ scada_stuck[i].P_avg # NaN

----------------------------------------------------------------------------
(* C3: stuck-sensor detection for one turbine and window length w.          *)

\* Sample i of data repeats sample i-1 (bit-identical, not NaN).
Repeats(data, col, i) ==
    /\ i > 1
    /\ i <= Len(data)
    /\ data[i][col] # NaN
    /\ data[i][col] = data[i - 1][col]

\* The samples a..b of data are a maximal run of identical values.
MaximalRun(data, col, a, b) ==
    /\ 1 <= a
    /\ a <= b
    /\ b <= Len(data)
    /\ \A k \in (a + 1)..b : Repeats(data, col, k)
    /\ ~Repeats(data, col, a)
    /\ ~Repeats(data, col, b + 1)

\* The stream the short-window detector read for turbine t.
VaneInput(t) == TurbineRows(scada_range, t)

\* The stream the long-window detector read for turbine t: the rows the
\* short-window detector flagged have been nulled before it runs.
TempInput(t) == TurbineRows(SetNaN(scada_range, va_flagged, sensor_cols), t)

\* The three cases of the claim for one stream, its flags and a window w.
RunsFlaggedExactly(data, col, w, flagged) ==
    \A a \in 1..Len(data) :
        /\ MaximalRun(data, col, a, a + w - 1) =>
              /\ \A k \in a..(a + w - 1) : data[k].ix \in flagged
              /\ (\E b \in (a + w)..(a + 2 * w - 2) : MaximalRun(data, col, a + w, b))
                   => data[a + w].ix \notin flagged
        /\ MaximalRun(data, col, a, a + w - 2) =>
              \A k \in a..(a + w - 2) : data[k].ix \notin flagged

\* C3: for every turbine, a run of exactly w identical values followed by
\* a differing value (one that does not itself start a run of w or more) has
\* exactly its w samples flagged and the differing value not flagged, and a
\* run of w-1 values is not flagged, wherever it lies in the stream; w = 3
\* over the vane angle and w = 20 over the temperature.
C3_RunOfWindowFlagged ==
    StuckJustDone =>
        \A t \in {scada_range[i].Wind_turbine_name : i \in 1..Len(scada_range)} :
            /\ RunsFlaggedExactly(VaneInput(t), "Va_avg", 3, va_flagged)
            /\ RunsFlaggedExactly(TempInput(t), "Ot_avg", 20, ot_flagged)

\* One turbine's stream starts with a vane run of 2 that is not flagged,
\* holds a temperature run of exactly 20 followed by a differing reading,
\* flagged but for that reading, and a flagged vane run of exactly 3.
C3_Witness ==
    /\ StuckJustDone
    /\ \E a \in 1..Len(TempInput(1)) :
          /\ MaximalRun(TempInput(1), "Ot_avg", a, a + 19)
          /\ a + 20 <= Len(TempInput(1))
          /\ TempInput(1)[a + 20].Ot_avg # NaN
          /\ \A k \in a..(a + 19) : TempInput(1)[k].ix \in ot_flagged
          /\ TempInput(1)[a + 20].ix \notin ot_flagged
    /\ MaximalRun(VaneInput(1), "Va_avg", 1, 2)
    /\ VaneInput(1)[1].ix \notin va_flagged
    /\ \E a \in 1..Len(VaneInput(1)) :
          /\ MaximalRun(VaneInput(1), "Va_avg", a, a + 2)
          /\ \A k \in a..(a + 2) : VaneInput(1)[k].ix \in va_flagged

----------------------------------------------------------------------------
(* C4: the deduplicator on the SCADA stream.                                *)

\* C4: the output has one record per (Wind_turbine_name, Date_time) key,
\* that record is the first input record with the key, the kept records
\* are unchanged and in their input order, and deduplicating the output
\* again changes nothing.
C4_DedupFirstWins ==
    AfterDedup =>
        /\ \A i, j \in 1..Len(scada_dedup) :
              i < j => /\ ScadaKey(scada_dedup[i]) # ScadaKey(scada_dedup[j])
                       /\ scada_dedup[i].ix < scada_dedup[j].ix
        /\ \A i \in 1..Len(scada_time) :
              \E k \in 1..Len(scada_dedup) :
                  /\ ScadaKey(scada_dedup[k]) = ScadaKey(scada_time[i])
                  /\ scada_dedup[k].ix <= scada_time[i].ix
        /\ \A k \in 1..Len(scada_dedup) :
              scada_dedup[k] = scada_time[scada_dedup[k].ix + 1]
        /\ drop_duplicates(scada_dedup) = scada_dedup

\* A stream with a duplicated key between two records that are kept.
C4_Witness ==
    /\ AfterDedup
    /\ Len(scada_dedup) >= 2
    /\ \E i, j \in 1..Len(scada_time) :
          /\ i < j
          /\ ScadaKey(scada_time[i]) = ScadaKey(scada_time[j])
          /\ scada_time[i].Ot_avg # scada_time[j].Ot_avg
          /\ scada_dedup[1] = scada_time[i]

----------------------------------------------------------------------------
(* C5: key uniqueness and time order of the streams handed to PlantData.    *)

\* The (timestamp, entity) keys of a stream are pairwise distinct and the
\* timestamps of each entity never decrease along the stream.
KeyedAndOrdered(times, entities) ==
    \A i, j \in 1..Len(times) :
        (i < j /\ entities[i] = entities[j]) => times[i] < times[j]

ColumnOf(df, c) == [i \in 1..Len(df) |-> df[i][c]]

Plant(df) == [i \in 1..Len(df) |-> 0]

\* C5: in the SCADA, meter, curtailment and reanalysis streams passed to
\* the dataset constructor the (timestamp, entity) key is unique and the
\* timestamps are non-decreasing per entity.
C5_StreamsKeyedAndOrdered ==
    Handed =>
        /\ KeyedAndOrdered(ColumnOf(scada_df, "Date_time"),
                           ColumnOf(scada_df, "Wind_turbine_name"))
        /\ KeyedAndOrdered(ColumnOf(meter_df, "time"), Plant(meter_df))
        /\ KeyedAndOrdered(ColumnOf(curtail_df, "time"), Plant(curtail_df))
        /\ KeyedAndOrdered(ColumnOf(re_merra2, "datetime"), Plant(re_merra2))
        /\ KeyedAndOrdered(ColumnOf(re_era5, "datetime"), Plant(re_era5))

----------------------------------------------------------------------------
(* C6: regularization of the reanalysis products onto the hourly grid.      *)

\* The raw feed is in time order without repeated hours.
Increasing(file) ==
    \A i, j \in 1..Len(file.rows) :
        i < j => file.rows[i].datetime < file.rows[j].datetime

\* The stream holds exactly the hours from the first to the last timestamp
\* of the feed, with NaN features at the hours the feed does not hold.
OnHourlyGrid(df, file) ==
    LET first == UtcInstant(file.rows[1].datetime, file.tz)
        last  == UtcInstant(file.rows[Len(file.rows)].datetime, file.tz)
        hours == {UtcInstant(file.rows[i].datetime, file.tz) : i \in 1..Len(file.rows)}
    IN  /\ Len(df) = ((last - first) \div 60) + 1
        /\ \A k \in 1..Len(df) :
              /\ df[k].datetime = first + 60 * (k - 1)
              /\ df[k].datetime \notin hours =>
                    /\ df[k].u = NaN
                    /\ df[k].v = NaN
                    /\ df[k].winddirection_deg = NaN

\* C6: for era5 and for merra2, a feed in time order that misses hours
\* between its first and last timestamp yields a stream with one row per
\* hour of the grid, the missing hours with NaN features.
C6_ReanalysisOnHourlyGrid ==
    Handed =>
        /\ Increasing(raw.era5) => OnHourlyGrid(re_era5, raw.era5)
        /\ Increasing(raw.merra2) => OnHourlyGrid(re_merra2, raw.merra2)

----------------------------------------------------------------------------
(* C7: the naive timestamps of all sources denote UTC.                      *)

\* C7: every naive timestamp of the SCADA, meter, curtailment and
\* reanalysis streams is the UTC wall-clock time of the instant the raw
\* value denotes, whatever offset the raw value is written with.
C7_AllSourcesNaiveUtc ==
    Handed =>
        /\ \A i \in 1..Len(scada_df) :
              scada_df[i].Date_time =
                 UtcInstant(raw.scada.rows[scada_df[i].ix + 1].Date_time, raw.scada.tz)
        /\ \A i \in 1..Len(meter_df) :
              meter_df[i].time = UtcInstant(raw.meter.rows[i].time_utc, raw.meter.tz)
        /\ \A i \in 1..Len(curtail_df) :
              curtail_df[i].time = UtcInstant(raw.meter.rows[i].time_utc, raw.meter.tz)
        /\ \A i \in 1..Len(re_merra2) :
              re_merra2[i].datetime =
                 UtcInstant(raw.merra2.rows[i].datetime, raw.merra2.tz)
        /\ \A i \in 1..Len(raw.era5.rows) :
              \E k \in 1..Len(re_era5) :
                 re_era5[k].datetime =
                    UtcInstant(raw.era5.rows[i].datetime, raw.era5.tz)

----------------------------------------------------------------------------
(* C8: the angle normalizer on blade pitch.                                 *)

\* C8: every pitch that is not missing is mapped into (-180, 180] and to a
\* value congruent to it modulo 360 (370 to 10, 190 to -170, -180 to 180),
\* and normalizing the result again returns it unchanged.
C8_PitchCanonical ==
    AfterPitch =>
        /\ Len(scada_pitch) = Len(scada_stuck)
        /\ \A i \in 1..Len(scada_stuck) :
              LET in  == scada_stuck[i].Ba_avg
                  out == scada_pitch[i].Ba_avg
              IN  in # NaN =>
                    /\ out # NaN
                    /\ out[1] > -180
                    /\ out[1] <= 180
                    /\ (out[1] - in[1]) % 360 = 0
                    /\ in[1] = 370 => out[1] = 10
                    /\ in[1] = 190 => out[1] = -170
                    /\ in[1] = -180 => out[1] = 180
                    /\ PitchNorm(out) = out

\* A pitch of -180 has been normalized.
C8_Witness ==
    /\ AfterPitch
    /\ \E i \in 1..Len(scada_stuck) :
          /\ scada_stuck[i].Ba_avg = Val(-180)
          /\ scada_pitch[i].Ba_avg = Val(180)

----------------------------------------------------------------------------
(* C9: the energy integrator.                                               *)

\* C9: on every row with a power reading energy_kwh is P_avg / 6, so zero
\* power gives zero energy and a row with twice the power of another has
\* twice its energy.
C9_EnergyIsPowerOverSix ==
    AfterEnergy =>
        /\ Len(scada_df) = Len(scada_pitch)
        /\ \A i \in 1..Len(scada_df) :
              LET p == scada_df[i].P_avg
                  e == scada_df[i].energy_kwh
              IN  /\ p = scada_pitch[i].P_avg
                  /\ p = NaN => e = NaN
                  /\ p # NaN =>
                        /\ e # NaN
                        /\ e[1].den > 0
                        /\ e[1].num * 6 = p[1] * e[1].den
                        /\ p[1] = 0 => e[1].num = 0
        /\ \A i, j \in 1..Len(scada_df) :
              LET p == scada_df[i].P_avg
                  q == scada_df[j].P_avg
              IN  (p # NaN /\ q # NaN /\ q[1] = 2 * p[1]) =>
                     scada_df[j].energy_kwh[1].num * scada_df[i].energy_kwh[1].den
                        = 2 * scada_df[i].energy_kwh[1].num * scada_df[j].energy_kwh[1].den

\* Two rows, one with twice the non-zero power of the other.
C9_Witness ==
    /\ AfterEnergy
    /\ \E i, j \in 1..Len(scada_df) :
          /\ scada_df[i].P_avg = Val(3)
          /\ scada_df[j].P_avg = Val(6)
          /\ scada_df[i].energy_kwh = Val([num |-> 1, den |-> 2])
          /\ scada_df[j].energy_kwh = Val([num |-> 1, den |-> 1])

----------------------------------------------------------------------------
(* C10: a source out of time order ends the run in UnalignableSource.       *)

\* Some entity's timestamps decrease along the stream once the repeated
\* (timestamp, entity) keys are dropped, the first record of a key kept.
OutOfOrder(times, entities) ==
    \E i, j \in 1..Len(times) :
        /\ i < j
        /\ entities[i] = entities[j]
        /\ times[i] > times[j]
        /\ \A k \in 1..(j - 1) : entities[k] = entities[j] => times[k] # times[j]

SomeSourceOutOfOrder ==
    \/ OutOfOrder(ColumnOf(scada_time, "Date_time"),
                  ColumnOf(scada_time, "Wind_turbine_name"))
    \/ OutOfOrder(ColumnOf(meter_df, "time"), Plant(meter_df))
    \/ OutOfOrder(ColumnOf(re_merra2, "datetime"), Plant(re_merra2))
    \/ OutOfOrder(Era5Times(raw.era5), Plant(raw.era5.rows))

\* C10: a run over a source whose timestamps are out of order after
\* deduplication ends in the error UnalignableSource: it never returns a
\* dataset, with the source re-sorted or passed through.
C10_OutOfOrderNeverReturned ==
    pc = "done" => ~SomeSourceOutOfOrder

----------------------------------------------------------------------------
(* C11: a dataset the validator rejects is neither returned nor cached.     *)

\* The validator is the last stage the running call has executed.
Validated == stages # <<>> /\ stages[Len(stages)] = <<"plant", "validate">>

----------------------------------------------------------------------------
(* C12: a timestamp that cannot be parsed.                                  *)

AnyMalformed ==
    \/ Malformed(raw.scada) # {}
    \/ Malformed(raw.meter) # {}
    \/ Malformed(raw.merra2) # {}
    \/ Malformed(raw.era5) # {}

\* No frame is made from a source with an unparseable timestamp and the
\* run never gets past the statement that parses it, where its only step is
\* to fail: the value is neither nulled nor skipped.
NeverNulledOrSkipped ==
    /\ Malformed(raw.scada) # {} =>
          /\ scada_time = <<>>
          /\ pc \in {"scada_read", "failed"}
    /\ Malformed(raw.meter) # {} =>
          /\ meter_df = <<>>
          /\ curtail_df = <<>>
          /\ pc \notin {"merra2", "era5", "era5_wd", "asset", "build", "done"}
    /\ Malformed(raw.merra2) # {} =>
          /\ re_merra2 = <<>>
          /\ pc \notin {"era5", "era5_wd", "asset", "build", "done"}
    /\ Malformed(raw.era5) # {} =>
          /\ re_era5 = <<>>
          /\ pc \notin {"era5_wd", "asset", "build", "done"}
    /\ AnyMalformed => plant = <<>>
    /\ (pc = "scada_read" /\ Malformed(raw.scada) # {}) => ENABLED ScadaTimeFails
    /\ (pc = "meter" /\ Malformed(raw.meter) # {}) => ENABLED LoadMeterCurtailFails
    /\ (pc = "merra2" /\ Malformed(raw.merra2) # {}) => ENABLED LoadMerra2Fails
    /\ (pc = "era5" /\ Malformed(raw.era5) # {}) => ENABLED LoadEra5TimeFails

----------------------------------------------------------------------------
(* C13: _extract_data over the calls of one server process.                 *)

\* C13: the archive is extracted only by a call that finds the directory
\* absent; once the directory exists no step extracts and no step changes
\* the directory.
C13_ExtractOnlyWhenAbsent ==
    [][/\ extracts' # extracts => (pc = "extract" /\ ~dir.exists)
       /\ dir.exists => (dir' = dir /\ extracts' = extracts)]_vars

\* A second call found the directory of the first call and went on to read
\* the files without extracting.
C13_Witness ==
    /\ runs = 2
    /\ extracts = 1
    /\ pc = "scada_read"
    /\ dir = FullDir

----------------------------------------------------------------------------
(* C14: st.cache_resource on load_plant_data.                               *)

\* C14: the pipeline completes successfully at most once; from then on the
\* cache holds that one object, the body of load_plant_data never runs
\* again (no call is in progress), every page load has received the same
\* instance, and the object is the cleaned dataset of the raw files.
C14_LoadOnce ==
    /\ completions <= 1
    /\ ~Cached(cache) => completions = 0
    /\ completions >= 1 =>
          /\ cache = <<1>>
          /\ pc = "idle"
          /\ got.kind = "plant"
          /\ got.id = 1
          /\ plant = LoadedPlant(raw)

\* A later page load was answered from the cache: one run, several loads.
C14_Witness ==
    /\ completions = 1
    /\ runs = 1
    /\ loads >= 2
    /\ got.id = 1

----------------------------------------------------------------------------
(* C15: an exception of the analysis on a page.                             *)

\* C15: on every analysis page an exception raised in the try block after
\* Run was pressed is caught: the next step of the page shows the error
\* message and ends the page run, with the cached dataset and the cached
\* results untouched; the dataset stays available throughout.
C15_FailureContained ==
    /\ [](Cached(cache) /\ plant = LoadedPlant(raw))
    /\ [][(an_pc = "raised" /\ an_call.caller = "page") =>
             /\ an_pc' = "idle"
             /\ shown' = "error"
             /\ UNCHANGED <<cache, plant, data_cache>>]_vars

\* After a page showed the error of its analysis, the next page run got the
\* shared dataset and called its wrapper.
C15_Witness ==
    /\ shown = "error"
    /\ an_pc = "try"
    /\ an_call.caller = "page"
    /\ an_call.d = cache[1]

----------------------------------------------------------------------------
(* C16: the order of the stages.                                            *)

\* The place of a stage in the order the claim gives.
StageRank(s) ==
    CASE s = "read" -> 1
      [] s = "time" -> 1
      [] s = "dedup" -> 2
      [] s = "range" -> 3
      [] s = "stuck" -> 4
      [] s = "angle" -> 5
      [] s = "energy" -> 6
      [] s = "derive" -> 7
      [] s = "align" -> 8
      [] s = "validate" -> 9

\* The place of a stage in the order of the code: ERA5 is put on its grid
\* before its wind direction is derived.
CodeRank(src, s) ==
    IF src = "era5" /\ s = "align" THEN 6 ELSE StageRank(s)

\* The stages of each source have run in the order of rank (the detector
\* runs once per turbine), and the validator after every other stage.
StagesOrderedBy(rank(_, _)) ==
    /\ \A i, j \in 1..Len(stages) :
          (i < j /\ stages[i][1] = stages[j][1]) =>
             \/ rank(stages[i][1], stages[i][2]) < rank(stages[j][1], stages[j][2])
             \/ stages[i][2] = "stuck" /\ stages[j][2] = "stuck"
    /\ \A i \in 1..Len(stages) : stages[i][2] = "validate" => i = Len(stages)

ClaimedRank(src, s) == StageRank(s)

\* Each stage has read the output of the stage before it (stated where
\* the stage has just ended; the frames do not change afterwards).
ReadsEarlierStage ==
    /\ pc = "scada_dedup" => scada_time = ScadaReadTime(raw.scada)
    /\ pc = "scada_range" => scada_dedup = drop_duplicates(scada_time)
    /\ pc = "scada_stuck" => scada_range = RangeFilter(scada_dedup)
    /\ pc = "scada_energy" => (todo = <<>> /\ scada_pitch = PitchStage(scada_stuck))
    /\ pc = "meter" => scada_df = EnergyStage(scada_pitch)
    /\ pc = "asset" => re_era5 = Era5Derive(Era5Regularize(raw.era5))
    /\ pc = "done" =>
          plant = [scada |-> scada_df, meter |-> meter_df, curtail |-> curtail_df,
                   asset |-> asset_df, era5 |-> re_era5, merra2 |-> re_merra2]

----------------------------------------------------------------------------
(* C17: the detector works on one turbine at a time.                        *)

\* The row labelled ix lies in a run of at least w identical values of the
\* stream data.
InOwnRun(data, col, ix, w) ==
    \E k \in 1..Len(data) :
        /\ data[k].ix = ix
        /\ \E a \in (k - w + 1)..k :
              /\ a >= 1
              /\ a + w - 1 <= Len(data)
              /\ \A j \in (a + 1)..(a + w - 1) : Repeats(data, col, j)

\* C17: a row is flagged only for a run of its own turbine's stream (vane:
\* at least 3, temperature: at least 20 identical consecutive values of
\* that turbine), whatever the rows of other turbines next to it in the
\* file hold; while the loop visits other turbines, the rows of a turbine
\* not yet visited are unchanged and unflagged; a row that is not flagged
\* is unchanged.
C17_PerTurbineIsolation ==
    (AfterRange /\ pc # "failed") =>
        \A i \in 1..Len(scada_range) :
            LET r0 == scada_range[i]
                t  == r0.Wind_turbine_name
            IN  /\ (\E k \in 1..Len(todo) : todo[k] = t) =>
                      /\ scada_stuck[i] = r0
                      /\ r0.ix \notin (va_flagged \cup ot_flagged)
                /\ r0.ix \in va_flagged =>
                      InOwnRun(VaneInput(t), "Va_avg", r0.ix, VaneWindow)
                /\ r0.ix \in ot_flagged =>
                      InOwnRun(TempInput(t), "Ot_avg", r0.ix, TempWindow)
                /\ r0.ix \notin (va_flagged \cup ot_flagged) => scada_stuck[i] = r0

\* Three rows of one turbine with a stuck vane are followed in the file by
\* rows of another turbine with the same reading: the first are flagged and
\* nulled, the row after them is not flagged and unchanged.
C17_Witness ==
    /\ AfterStuck
    /\ \E i \in 1..(Len(scada_range) - 1) :
          /\ scada_range[i].Wind_turbine_name # scada_range[i + 1].Wind_turbine_name
          /\ scada_range[i].Va_avg # NaN
          /\ scada_range[i].Va_avg = scada_range[i + 1].Va_avg
          /\ scada_range[i].ix \in va_flagged
          /\ scada_stuck[i].Va_avg = NaN
          /\ scada_range[i + 1].ix \notin va_flagged
          /\ scada_stuck[i + 1] = scada_range[i + 1]

----------------------------------------------------------------------------
(* C18: the key of the cached analysis wrappers.                            *)

\* C18: for each decorated wrapper and each value of the parameters the
\* body runs to completion at most once, the cache holds at most one result,
\* and every call that returns gets that result, whichever dataset instance
\* it passed.
C18_CacheKeyedOnParameters ==
    /\ \A k \in CachedWrappers \X ParamSets : an_success[k] <= 1
    /\ \A e1, e2 \in data_cache :
          (e1.res.w = e2.res.w /\ e1.res.p = e2.res.p) => e1 = e2
    /\ (an_pc = "returned" /\ an_call.w \in CachedWrappers) =>
          \E e \in data_cache :
              /\ e.res.w = an_call.w
              /\ e.res.p = an_call.p
              /\ e.res = an_res

\* A call with one dataset instance got the result computed from another.
C18_Witness ==
    /\ an_pc = "returned"
    /\ an_call.w \in CachedWrappers
    /\ an_res.d # an_call.d
    /\ an_success[<<an_call.w, an_call.p>>] = 1

----------------------------------------------------------------------------
(* C19: the directory a call finds.                                         *)

\* C19: whenever _extract_data finds the directory and skips the
\* extraction, the directory holds every member of the archive.
C19_SkipImpliesComplete ==
    (pc = "extract" /\ ~NeedsExtract(dir)) => dir = FullDir

====
